---- MODULE Spec2Model ----
(***************************************************************************)
(* Home Security System dashboard (App.js, index.js).                      *)
(*                                                                         *)
(* The model follows the React component App: its useState cells are the   *)
(* variables, every command function / event handler / timer callback is   *)
(* one action, and the pure parts of the handlers are operators.           *)
(*                                                                         *)
(* Conventions.                                                            *)
(*  - The module is ASCII: the pictographs that open two of the source's   *)
(*    log literals are left out, the long dash of the state-change message *)
(*    is written " - " and the arrow of the history note " -> ".           *)
(*  - Timestamps (nowISO) are natural numbers read from the clock `now`;   *)
(*    the clock advances by one with every handled event. null is 0.       *)
(*  - null / undefined forcedState is the empty string (both are falsy).   *)
(*  - A state cell that holds undefined is named in undefinedCells; its     *)
(*    variable then holds the falsy stand-in (<< >> or FALSE).              *)
(*  - An error thrown while rendering or in an effect is not caught by any *)
(*    error boundary: React 18 unmounts the root (app = "crashed"), and    *)
(*    only a reload of the page brings the component back.                 *)
(***************************************************************************)
EXTENDS Integers, Sequences, FiniteSets, TLC

VARIABLES
    sensors,        \* useState: array of sensor records
    armed,          \* useState: boolean
    logs,           \* useState: array of {message, time}, most recent first
    alarmOn,        \* useState: boolean (not persisted)
    simulate,       \* useState: boolean, the interval is installed iff TRUE
    showModal,      \* useState: boolean
    selectedSensor, \* useState: the sensor object last clicked, or null
    stored,         \* localStorage[STORAGE_KEY]
    saved,          \* what getItem returned to the initialisers of this mount
    undefinedCells, \* the cells among sensors / armed / logs that hold undefined
    app,            \* "running", or "crashed" once React has unmounted the root
    writable,       \* FALSE once localStorage.setItem throws
    timer,          \* armed / alarmOn as captured by the interval callback
    now,            \* the clock
    steps,          \* number of events handled so far (bounds the run)
    limit,          \* number of events of this run
    last            \* the event handled by the latest step

vars == << sensors, armed, logs, alarmOn, simulate, showModal, selectedSensor,
           stored, saved, undefinedCells, app, writable, timer, now, steps,
           limit, last >>

----------------------------------------------------------------------------
(* Bounds and program constants *)

MaxSteps == 2

SeasonToggles == 170

SeasonTriggers == 29

HISTORY_CAP == 30

LOG_CAP == 200

NoForce == ""

NoTime == 0

\* ids passed to the sensor commands: the five sensors and one unknown id
IdInputs == {1, 2, 3, 4, 5, 99}

\* forcedState arguments tried: none, and one abnormal value
ForcedInputs == {NoForce, "open"}

\* how often React invokes a state updater: once, or twice when
\* React.StrictMode re-runs it in a development build
RunInputs == {1, 2}

----------------------------------------------------------------------------
(* Data *)

initialSensors ==
    << [id |-> 1, name |-> "Front Door", type |-> "door", state |-> "closed",
        lastEvent |-> NoTime, history |-> <<>>],
       [id |-> 2, name |-> "Back Window", type |-> "window", state |-> "closed",
        lastEvent |-> NoTime, history |-> <<>>],
       [id |-> 3, name |-> "Living Room Motion", type |-> "motion", state |-> "idle",
        lastEvent |-> NoTime, history |-> <<>>],
       [id |-> 4, name |-> "Garage Camera", type |-> "camera", state |-> "ok",
        lastEvent |-> NoTime, history |-> <<>>],
       [id |-> 5, name |-> "Kitchen Smoke", type |-> "smoke", state |-> "ok",
        lastEvent |-> NoTime, history |-> <<>>] >>

\* selectedSensor = null; `${selectedSensor?.name}` then prints "undefined"
NoSelection == [id |-> 0, name |-> "undefined"]

\* Array.prototype.slice(0, n)
Slice(s, n) == SubSeq(s, 1, IF Len(s) < n THEN Len(s) ELSE n)

----------------------------------------------------------------------------
(* Event/Log pipeline *)

\* mutant of pushLog: the slice keeps the 200 last entries (slice(-200))
pushLog_SliceFromEnd(prev, message, time) ==
    LET all == << [message |-> message, time |-> time] >> \o prev
    IN SubSeq(all, IF Len(all) > LOG_CAP THEN Len(all) - LOG_CAP + 1 ELSE 1, Len(all))

pushLog(prev, message, time) ==
    Slice(<< [message |-> message, time |-> time] >> \o prev, LOG_CAP)

\* pushLog called once per message, in order
RECURSIVE PushAll(_, _, _)
PushAll(prev, messages, time) ==
    IF messages = << >> THEN prev
    ELSE PushAll(pushLog(prev, Head(messages), time), Tail(messages), time)

\* s repeated n times
RECURSIVE Repeat(_, _)
Repeat(s, n) == IF n = 0 THEN << >> ELSE s \o Repeat(s, n - 1)

----------------------------------------------------------------------------
(* simulateSensorEvent: the callback of prev.map, for one sensor s.         *)
(* cArmed, cAlarmOn are the values of armed and alarmOn in the closure of   *)
(* the render that created the function being called.                      *)

Abnormal(newState) ==
    newState = "open" \/ newState = "motion" \/ newState = "alarm" \/ newState = "alert"

\* mutant of NextState: the smoke branch toggles like the camera branch
NextState_SmokeAsCamera(s, forcedState) ==
    IF forcedState # NoForce THEN forcedState
    ELSE IF s.type = "door" \/ s.type = "window"
         THEN (IF s.state = "open" THEN "closed" ELSE "open")
    ELSE IF s.type = "motion"
         THEN (IF s.state = "motion" THEN "idle" ELSE "motion")
    ELSE (IF s.state = "ok" THEN "alert" ELSE "ok")

NextState(s, forcedState) ==
    IF forcedState # NoForce THEN forcedState
    ELSE IF s.type = "door" \/ s.type = "window"
         THEN (IF s.state = "open" THEN "closed" ELSE "open")
    ELSE IF s.type = "motion"
         THEN (IF s.state = "motion" THEN "idle" ELSE "motion")
    ELSE IF s.type = "camera"
         THEN (IF s.state = "ok" THEN "alert" ELSE "ok")
    ELSE IF s.type = "smoke"
         THEN (IF s.state = "alarm" THEN "ok" ELSE "alarm")
    ELSE (IF s.state = "ok" THEN "alert" ELSE "ok")

\* the record the map callback returns for s
MapSensor(s, sensorId, forcedState, cAlarmOn, eventTime) ==
    IF s.id # sensorId THEN s
    ELSE IF cAlarmOn THEN s
    ELSE LET newState == NextState(s, forcedState)
             event == [time |-> eventTime, type |-> newState,
                       note |-> s.name \o " -> " \o newState]
         IN [s EXCEPT !.state = newState,
                      !.lastEvent = eventTime,
                      !.history = Slice(<< event >> \o s.history, HISTORY_CAP)]

\* mutant of MapMessages: the alarmOn test comes before the id test
MapMessages_SilenceBeforeIdTest(s, sensorId, forcedState, cArmed, cAlarmOn) ==
    IF cAlarmOn THEN << "Alarm stopped manually via " \o s.name >>
    ELSE IF s.id # sensorId THEN << >>
    ELSE LET newState == NextState(s, forcedState)
         IN << s.name \o " - " \o newState >> \o
            (IF cArmed /\ Abnormal(newState)
             THEN << "ALARM TRIGGERED: " \o s.name \o
                     " detected activity while system armed" >>
             ELSE << >>)

\* the messages the map callback hands to pushLog for s, in call order
MapMessages(s, sensorId, forcedState, cArmed, cAlarmOn) ==
    IF s.id # sensorId THEN << >>
    ELSE IF cAlarmOn THEN << "Alarm stopped manually via " \o s.name >>
    ELSE LET newState == NextState(s, forcedState)
         IN << s.name \o " - " \o newState >> \o
            (IF cArmed /\ Abnormal(newState)
             THEN << "ALARM TRIGGERED: " \o s.name \o
                     " detected activity while system armed" >>
             ELSE << >>)

\* the arguments of the setAlarmOn calls the map callback makes for s
MapAlarmCalls(s, sensorId, forcedState, cArmed, cAlarmOn) ==
    IF s.id # sensorId THEN << >>
    ELSE IF cAlarmOn THEN << FALSE >>
    ELSE IF cArmed /\ Abnormal(NextState(s, forcedState)) THEN << TRUE >>
    ELSE << >>

\* prev.map visits the sensors in index order: all pushLog messages
RECURSIVE AllMessages(_, _, _, _, _)
AllMessages(ss, sensorId, forcedState, cArmed, cAlarmOn) ==
    IF ss = << >> THEN << >>
    ELSE MapMessages(Head(ss), sensorId, forcedState, cArmed, cAlarmOn) \o
         AllMessages(Tail(ss), sensorId, forcedState, cArmed, cAlarmOn)

\* prev.map visits the sensors in index order: all setAlarmOn arguments
RECURSIVE AllAlarmCalls(_, _, _, _, _)
AllAlarmCalls(ss, sensorId, forcedState, cArmed, cAlarmOn) ==
    IF ss = << >> THEN << >>
    ELSE MapAlarmCalls(Head(ss), sensorId, forcedState, cArmed, cAlarmOn) \o
         AllAlarmCalls(Tail(ss), sensorId, forcedState, cArmed, cAlarmOn)

----------------------------------------------------------------------------
(* Persistence store and startup *)

AllKeys == {"sensors", "armed", "logs"}

\* JSON.stringify({ sensors, armed, logs }) as kept under STORAGE_KEY; a key
\* whose value is undefined is left out by JSON.stringify
Stringify(ss, a, ls, undef) ==
    [present |-> TRUE, parsable |-> TRUE, keys |-> AllKeys \ undef,
     sensors |-> IF "sensors" \in undef THEN << >> ELSE ss,
     armed |-> IF "armed" \in undef THEN FALSE ELSE a,
     logs |-> IF "logs" \in undef THEN << >> ELSE ls]

\* the text written by a session all of whose cells are defined
Snapshot(ss, a, ls) == Stringify(ss, a, ls, {})

\* localStorage.getItem(STORAGE_KEY) === null
NoKey == [present |-> FALSE, parsable |-> FALSE, keys |-> {},
          sensors |-> << >>, armed |-> FALSE, logs |-> << >>]

\* a text JSON.parse throws on
Garbled == [NoKey EXCEPT !.present = TRUE]

\* the text "{}"
EmptyObject == Stringify(<< >>, FALSE, << >>, AllKeys)

\* the initialisers return from inside the try block: the text is non-empty
\* and JSON.parse does not throw
Parsed(st) == st.present /\ st.parsable

\* JSON.parse(saved).sensors, or initialSensors
LoadSensors(st) == IF Parsed(st) THEN st.sensors ELSE initialSensors

\* JSON.parse(saved).armed, or false
LoadArmed(st) == IF Parsed(st) THEN st.armed ELSE FALSE

\* JSON.parse(saved).logs, or []
LoadLogs(st) == IF Parsed(st) THEN st.logs ELSE << >>

\* the cells whose initialiser returned a property the parsed value lacks
LoadUndefined(st) == IF Parsed(st) THEN AllKeys \ st.keys ELSE {}

\* render calls sensors.map and reads logs.length
RenderThrows(undef) == undef \cap {"sensors", "logs"} # {}

\* the event record kept in `last`
Event(op, id, forced, runs, cArmed, cAlarmOn) ==
    [op |-> op, id |-> id, forced |-> forced, runs |-> runs,
     cArmed |-> cArmed, cAlarmOn |-> cAlarmOn]

\* mutant of Mount: the alarm is derived from the restored snapshot
Mount_RingsIfAbnormal(st) ==
    LET undef == LoadUndefined(st)
        up == ~RenderThrows(undef) /\ writable
    IN /\ saved' = st
       /\ sensors' = LoadSensors(st)
       /\ armed' = LoadArmed(st)
       /\ logs' = LoadLogs(st)
       /\ undefinedCells' = undef
       /\ showModal' = FALSE
       /\ selectedSensor' = NoSelection
       /\ simulate' = TRUE
       /\ alarmOn' = (LoadArmed(st) /\ \E i \in 1..Len(LoadSensors(st)) :
                                          Abnormal(LoadSensors(st)[i].state))
       /\ app' = IF up THEN "running" ELSE "crashed"
       /\ stored' = IF up
                    THEN Stringify(LoadSensors(st), LoadArmed(st), LoadLogs(st), undef)
                    ELSE stored
       /\ timer' = [armed |-> LoadArmed(st), alarmOn |-> alarmOn']

\* the component mounts on a page whose store holds st; the first render
\* is followed by the persist effect and the simulation effect
Mount(st) ==
    LET undef == LoadUndefined(st)
        up == ~RenderThrows(undef) /\ writable
    IN /\ saved' = st
       /\ sensors' = LoadSensors(st)
       /\ armed' = LoadArmed(st)
       /\ logs' = LoadLogs(st)
       /\ undefinedCells' = undef
       /\ showModal' = FALSE
       /\ selectedSensor' = NoSelection
       /\ simulate' = TRUE
       /\ alarmOn' = FALSE
       /\ app' = IF up THEN "running" ELSE "crashed"
       /\ stored' = IF up
                    THEN Stringify(LoadSensors(st), LoadArmed(st), LoadLogs(st), undef)
                    ELSE stored
       /\ timer' = [armed |-> LoadArmed(st), alarmOn |-> FALSE]

\* mutant of Effects: the persist effect writes the cells of the render
\* before the command
Effects_StaleWrite(persist, reinstall) ==
    LET thrown == persist /\ ~writable
    IN /\ stored' = IF persist /\ writable
                    THEN Stringify(sensors, armed, logs, undefinedCells)
                    ELSE stored
       /\ app' = IF thrown THEN "crashed" ELSE app
       /\ timer' = IF reinstall /\ simulate' /\ ~thrown
                   THEN [armed |-> armed', alarmOn |-> alarmOn']
                   ELSE timer
       /\ UNCHANGED << saved, writable >>

\* the effects that follow a committed render: the persist effect (its
\* dependencies are sensors, armed, logs) and the simulation effect (its
\* dependencies are simulate, sensors), which re-installs the interval with
\* the functions of the current render.  setItem is called bare: when it
\* throws, the error leaves the effect and React unmounts the root.
Effects(persist, reinstall) ==
    LET thrown == persist /\ ~writable
    IN /\ stored' = IF persist /\ writable
                    THEN Stringify(sensors', armed', logs', undefinedCells')
                    ELSE stored
       /\ app' = IF thrown THEN "crashed" ELSE app
       /\ timer' = IF reinstall /\ simulate' /\ ~thrown
                   THEN [armed |-> armed', alarmOn |-> alarmOn']
                   ELSE timer
       /\ UNCHANGED << saved, writable >>

\* every handled event advances the clock and is recorded; a crashed page
\* has no buttons and no interval, it can only be reloaded
Handled(ev) ==
    /\ steps < limit
    /\ ev.op = "reload" \/ app = "running"
    /\ steps' = steps + 1
    /\ now' = now + 1
    /\ last' = ev
    /\ limit' = limit

----------------------------------------------------------------------------
(* Handlers *)

\* simulateSensorEvent(sensorId, forcedState), called through a function
\* whose closure holds cArmed and cAlarmOn; React runs the updater `runs` times
simulateSensorEvent(sensorId, forcedState, cArmed, cAlarmOn, runs) ==
    LET eventTime == now + 1
        messages == AllMessages(sensors, sensorId, forcedState, cArmed, cAlarmOn)
        calls == AllAlarmCalls(sensors, sensorId, forcedState, cArmed, cAlarmOn)
    IN /\ sensors' = [i \in 1..Len(sensors) |->
                        MapSensor(sensors[i], sensorId, forcedState, cAlarmOn,
                                  eventTime)]
       /\ logs' = PushAll(logs, Repeat(messages, runs), eventTime)
       /\ alarmOn' = IF calls = << >> THEN alarmOn ELSE calls[Len(calls)]
       /\ UNCHANGED << armed, simulate, showModal, selectedSensor >>
       /\ UNCHANGED undefinedCells
       /\ Effects(TRUE, TRUE)

\* quickToggle / a direct call of the command from the current render
TriggerSensor ==
    \E sensorId \in IdInputs, forcedState \in ForcedInputs, runs \in RunInputs :
        /\ Handled(Event("trigger", sensorId, forcedState, runs, armed, alarmOn))
        /\ simulateSensorEvent(sensorId, forcedState, armed, alarmOn, runs)

\* the setInterval callback: it calls the simulateSensorEvent of the render
\* in which the simulation effect last ran
Tick ==
    /\ simulate
    /\ \E hit \in BOOLEAN :
        IF hit
        THEN \E idx \in 1..Len(sensors), runs \in RunInputs :
                /\ Handled(Event("tick", sensors[idx].id, NoForce, runs,
                                 timer.armed, timer.alarmOn))
                /\ simulateSensorEvent(sensors[idx].id, NoForce,
                                       timer.armed, timer.alarmOn, runs)
        ELSE /\ Handled(Event("idle", 0, NoForce, 1, timer.armed, timer.alarmOn))
             /\ UNCHANGED << sensors, armed, logs, alarmOn, simulate, showModal,
                             selectedSensor, stored, timer,
                             saved, undefinedCells, app, writable >>

NormalState(s) ==
    IF s.type = "motion" THEN "idle"
    ELSE IF s.type = "smoke" THEN "ok"
    ELSE IF s.type = "camera" THEN "ok"
    ELSE "closed"

performSensorAck ==
    \E sensorId \in IdInputs :
        /\ Handled(Event("acknowledge", sensorId, NoForce, 1, armed, alarmOn))
        /\ sensors' = [i \in 1..Len(sensors) |->
                         IF sensors[i].id = sensorId
                         THEN [sensors[i] EXCEPT !.state = NormalState(sensors[i])]
                         ELSE sensors[i]]
        /\ logs' = pushLog(logs, "Acknowledged " \o selectedSensor.name, now + 1)
        /\ alarmOn' = FALSE
        /\ UNCHANGED << armed, simulate, showModal, selectedSensor >>
        /\ UNCHANGED undefinedCells
        /\ Effects(TRUE, TRUE)

\* mutant of armSystem: arming looks at the sensors and rings at once
armSystem_RingsIfAbnormal ==
    /\ Handled(Event("arm", 0, NoForce, 1, armed, alarmOn))
    /\ armed' = TRUE
    /\ alarmOn' = (alarmOn \/ \E i \in 1..Len(sensors) : Abnormal(sensors[i].state))
    /\ logs' = pushLog(logs, "System armed", now + 1)
    /\ UNCHANGED << sensors, simulate, showModal, selectedSensor >>
    /\ undefinedCells' = undefinedCells \ {"armed"}
    /\ Effects(TRUE, FALSE)

armSystem ==
    /\ Handled(Event("arm", 0, NoForce, 1, armed, alarmOn))
    /\ armed' = TRUE
    /\ logs' = pushLog(logs, "System armed", now + 1)
    /\ UNCHANGED << sensors, alarmOn, simulate, showModal, selectedSensor >>
    /\ undefinedCells' = undefinedCells \ {"armed"}
    /\ Effects(TRUE, FALSE)

\* mutant of disarmSystem: setAlarmOn(false) is missing
disarmSystem_AlarmKept ==
    /\ Handled(Event("disarm", 0, NoForce, 1, armed, alarmOn))
    /\ armed' = FALSE
    /\ logs' = pushLog(logs, "System disarmed", now + 1)
    /\ UNCHANGED << sensors, alarmOn, simulate, showModal, selectedSensor >>
    /\ undefinedCells' = undefinedCells \ {"armed"}
    /\ Effects(TRUE, FALSE)

disarmSystem ==
    /\ Handled(Event("disarm", 0, NoForce, 1, armed, alarmOn))
    /\ armed' = FALSE
    /\ alarmOn' = FALSE
    /\ logs' = pushLog(logs, "System disarmed", now + 1)
    /\ UNCHANGED << sensors, simulate, showModal, selectedSensor >>
    /\ undefinedCells' = undefinedCells \ {"armed"}
    /\ Effects(TRUE, FALSE)

\* mutant of toggleAlarm: the message is chosen by the new value of alarmOn
toggleAlarm_MessageOfNewValue ==
    /\ Handled(Event("toggleAlarm", 0, NoForce, 1, armed, alarmOn))
    /\ alarmOn' = ~alarmOn
    /\ logs' = pushLog(logs, IF ~alarmOn THEN "Alarm silenced" ELSE "Alarm sounded",
                       now + 1)
    /\ UNCHANGED << sensors, armed, simulate, showModal, selectedSensor >>
    /\ UNCHANGED undefinedCells
    /\ Effects(TRUE, FALSE)

\* onChange of the "Sound Alarm" checkbox
toggleAlarm ==
    /\ Handled(Event("toggleAlarm", 0, NoForce, 1, armed, alarmOn))
    /\ alarmOn' = ~alarmOn
    /\ logs' = pushLog(logs, IF alarmOn THEN "Alarm silenced" ELSE "Alarm sounded",
                       now + 1)
    /\ UNCHANGED << sensors, armed, simulate, showModal, selectedSensor >>
    /\ UNCHANGED undefinedCells
    /\ Effects(TRUE, FALSE)

\* mutant of clearLogs: setLogs([]) is lost, the entry is added to the old log
clearLogs_KeepsOld ==
    /\ Handled(Event("clearLogs", 0, NoForce, 1, armed, alarmOn))
    /\ logs' = pushLog(logs, "Cleared logs", now + 1)
    /\ UNCHANGED << sensors, armed, alarmOn, simulate, showModal, selectedSensor >>
    /\ UNCHANGED undefinedCells
    /\ Effects(TRUE, FALSE)

\* onClick of "Clear Logs"
clearLogs ==
    /\ Handled(Event("clearLogs", 0, NoForce, 1, armed, alarmOn))
    /\ logs' = pushLog(<< >>, "Cleared logs", now + 1)
    /\ UNCHANGED << sensors, armed, alarmOn, simulate, showModal, selectedSensor >>
    /\ UNCHANGED undefinedCells
    /\ Effects(TRUE, FALSE)

\* onClick of "Stop Simulation" / "Start Simulation"
toggleSimulation ==
    /\ Handled(Event("toggleSimulation", 0, NoForce, 1, armed, alarmOn))
    /\ simulate' = ~simulate
    /\ logs' = pushLog(logs, "Simulation " \o
                             (IF simulate THEN "disabled" ELSE "enabled"), now + 1)
    /\ UNCHANGED << sensors, armed, alarmOn, showModal, selectedSensor >>
    /\ UNCHANGED undefinedCells
    /\ Effects(TRUE, TRUE)

\* onClick of a sensor card
openSensorModal ==
    \E i \in 1..Len(sensors) :
        /\ Handled(Event("openSensorModal", sensors[i].id, NoForce, 1, armed, alarmOn))
        /\ selectedSensor' = [id |-> sensors[i].id, name |-> sensors[i].name]
        /\ showModal' = TRUE
        /\ UNCHANGED << sensors, armed, logs, alarmOn, simulate >>
        /\ UNCHANGED undefinedCells
        /\ Effects(FALSE, FALSE)

\* onClick of a card's "Check" button
checkSensor ==
    \E i \in 1..Len(sensors) :
        /\ Handled(Event("check", sensors[i].id, NoForce, 1, armed, alarmOn))
        /\ logs' = pushLog(logs, "Checked " \o sensors[i].name, now + 1)
        /\ UNCHANGED << sensors, armed, alarmOn, simulate, showModal, selectedSensor >>
        /\ UNCHANGED undefinedCells
        /\ Effects(TRUE, FALSE)

\* the page is reloaded: the component mounts again on the current store
Reload ==
    /\ Handled(Event("reload", 0, NoForce, 1, armed, alarmOn))
    /\ Mount(stored)
    /\ UNCHANGED writable

\* the quota of the origin is used up: from now on setItem throws
StorageFills ==
    /\ Handled(Event("storageFills", 0, NoForce, 1, armed, alarmOn))
    /\ writable
    /\ writable' = FALSE
    /\ UNCHANGED << sensors, armed, logs, alarmOn, simulate, showModal,
                    selectedSensor, stored, saved, undefinedCells, app, timer >>

----------------------------------------------------------------------------
(* What the store may hold when the page is first opened.                  *)
(* Besides the empty store these are snapshots an earlier session of the   *)
(* program left behind.  The long session is: SeasonToggles clicks on      *)
(* "Sound Alarm" at times 1 .. SeasonToggles, then SeasonTriggers clicks   *)
(* on the Front Door's "Trigger" (disarmed, alarm off), one per time unit. *)

\* the state the Front Door is moved to by the k-th of those triggers
SeasonDoorState(k) == IF k % 2 = 1 THEN "open" ELSE "closed"

\* the log entry written at time t of the long session
SeasonLogEntry(t) ==
    [message |-> IF t > SeasonToggles
                 THEN "Front Door - " \o SeasonDoorState(t - SeasonToggles)
                 ELSE IF t % 2 = 1 THEN "Alarm sounded" ELSE "Alarm silenced",
     time |-> t]

\* the history event written by the k-th trigger
SeasonEvent(k) ==
    [time |-> SeasonToggles + k, type |-> SeasonDoorState(k),
     note |-> "Front Door -> " \o SeasonDoorState(k)]

SeasonLogs ==
    Slice([i \in 1..(SeasonToggles + SeasonTriggers) |->
              SeasonLogEntry(SeasonToggles + SeasonTriggers + 1 - i)], LOG_CAP)

SeasonDoor ==
    IF SeasonTriggers = 0 THEN initialSensors[1]
    ELSE [initialSensors[1] EXCEPT
            !.state = SeasonDoorState(SeasonTriggers),
            !.lastEvent = SeasonToggles + SeasonTriggers,
            !.history = Slice([i \in 1..SeasonTriggers |->
                                  SeasonEvent(SeasonTriggers + 1 - i)], HISTORY_CAP)]

\* a long session: the log and the Front Door's history are one short of full
SeasonedStore ==
    Snapshot([initialSensors EXCEPT ![1] = SeasonDoor], FALSE, SeasonLogs)

\* a session that armed the system and was closed
ArmedStore == Snapshot(initialSensors, TRUE, pushLog(<< >>, "System armed", 1))

InitialPages ==
    { [store |-> NoKey, now |-> 0],
      [store |-> ArmedStore, now |-> 1],
      [store |-> SeasonedStore, now |-> SeasonToggles + SeasonTriggers] }

\* the state after the component has mounted on the page
Opened(page, events) ==
    LET undef == LoadUndefined(page.store)
        up == ~RenderThrows(undef)
    IN /\ saved = page.store
       /\ sensors = LoadSensors(page.store)
       /\ armed = LoadArmed(page.store)
       /\ logs = LoadLogs(page.store)
       /\ undefinedCells = undef
       /\ showModal = FALSE
       /\ selectedSensor = NoSelection
       /\ simulate = TRUE
       /\ alarmOn = FALSE
       /\ writable = TRUE
       /\ app = IF up THEN "running" ELSE "crashed"
       /\ stored = IF up
                   THEN Stringify(LoadSensors(page.store), LoadArmed(page.store),
                                  LoadLogs(page.store), undef)
                   ELSE page.store
       /\ timer = [armed |-> LoadArmed(page.store), alarmOn |-> FALSE]
       /\ now = page.now
       /\ steps = 0
       /\ limit = events
       /\ last = Event("mount", 0, NoForce, 1, FALSE, FALSE)

Init == \E page \in InitialPages : Opened(page, MaxSteps)

Next ==
    \/ TriggerSensor
    \/ Tick
    \/ performSensorAck
    \/ armSystem
    \/ disarmSystem
    \/ toggleAlarm
    \/ clearLogs
    \/ toggleSimulation
    \/ openSensorModal
    \/ checkSensor
    \/ Reload

Spec == Init /\ [][Next]_vars

----------------------------------------------------------------------------
(* The store at startup and while the page is open.                        *)
(* The page is opened on a store the program did not write (no key, a text *)
(* that is not JSON, JSON that lacks the keys of a snapshot), and the      *)
(* store may stop accepting writes while the page is open.                 *)

\* a snapshot without the key "armed"
NoArmedKey == Stringify(initialSensors, FALSE, << >>, {"armed"})

StorePages ==
    { [store |-> NoKey, now |-> 0],
      [store |-> Garbled, now |-> 0],
      [store |-> EmptyObject, now |-> 0],
      [store |-> NoArmedKey, now |-> 0] }

InitStore == \E page \in StorePages : Opened(page, MaxSteps)

NextStore == Next \/ StorageFills

SpecStore == InitStore /\ [][NextStore]_vars

----------------------------------------------------------------------------
(* The interval callback against the buttons, one event longer: the page   *)
(* is opened on the armed store, and only triggers, ticks and the "Sound   *)
(* Alarm" checkbox are used.                                               *)

TimerSteps == MaxSteps + 1

InitTimer == Opened([store |-> ArmedStore, now |-> 1], TimerSteps)

NextTimer ==
    \/ TriggerSensor
    \/ Tick
    \/ toggleAlarm

SpecTimer == InitTimer /\ [][NextTimer]_vars

----------------------------------------------------------------------------
(* Vocabulary of the properties *)

AbnormalStates == {"open", "motion", "alarm", "alert"}

ValidStates(type) ==
    IF type \in {"door", "window"} THEN {"open", "closed"}
    ELSE IF type = "motion" THEN {"idle", "motion"}
    ELSE IF type = "camera" THEN {"ok", "alert"}
    ELSE IF type = "smoke" THEN {"ok", "alarm"}
    ELSE {}

NormalValue(type) ==
    IF type = "motion" THEN "idle"
    ELSE IF type \in {"smoke", "camera"} THEN "ok"
    ELSE "closed"

HasSensor(id) == \E i \in 1..Len(sensors) : sensors[i].id = id

IndexOf(id) == CHOOSE i \in 1..Len(sensors) : sensors[i].id = id

\* the step handles a triggerSensor call (a manual one or the timer's)
TriggerStep == last'.op \in {"trigger", "tick"}

\* old with the entries (newest first) put in front, cut to the log's capacity
WithNewEntries(old, entries) ==
    SubSeq(entries \o old, 1,
           IF Len(entries) + Len(old) < LOG_CAP THEN Len(entries) + Len(old) ELSE LOG_CAP)

LogEntry(message, time) == [message |-> message, time |-> time]

----------------------------------------------------------------------------
(* C1: silence-on-retrigger. In any reachable state with alarmOn = TRUE, a  *)
(* triggerSensor call on an existing sensor ends with alarmOn = FALSE, the  *)
(* sensor records unchanged, and exactly one new log entry "Alarm stopped   *)
(* manually via <name>" in front of the log.                               *)
C1_SilenceOnRetrigger ==
    [][ (TriggerStep /\ alarmOn /\ HasSensor(last'.id)) =>
            /\ alarmOn' = FALSE
            /\ sensors' = sensors
            /\ logs' = WithNewEntries(logs,
                         << LogEntry("Alarm stopped manually via " \o
                                     sensors[IndexOf(last'.id)].name, now') >>)
      ]_vars

(* C2: arming-check. Whenever alarmOn = FALSE and a triggerSensor call      *)
(* moves an existing sensor into an abnormal state while armed = TRUE, the  *)
(* call ends with alarmOn = TRUE and an "ALARM TRIGGERED" entry written by  *)
(* this call; when armed = FALSE or the new state is not abnormal, alarmOn  *)
(* stays FALSE.                                                            *)
C2_ArmingCheck ==
    [][ (TriggerStep /\ ~alarmOn /\ HasSensor(last'.id)) =>
            LET i == IndexOf(last'.id)
            IN IF armed /\ sensors'[i].lastEvent = now'
                        /\ sensors'[i].state \in AbnormalStates
               THEN /\ alarmOn'
                    /\ \E k \in 1..Len(logs') :
                          logs'[k] = LogEntry("ALARM TRIGGERED: " \o sensors[i].name \o
                                              " detected activity while system armed", now')
               ELSE ~alarmOn'
      ]_vars

\* what a manual triggerSensor(id), its updater run `runs` times, would leave
\* when issued in the current state
LikeManualTrigger(id, runs) ==
    LET i == IndexOf(id)
        s == sensors[i]
        newState == NextState(s, NoForce)
        ring == armed /\ newState \in AbnormalStates
    IN IF alarmOn
       THEN /\ sensors' = sensors
            /\ alarmOn' = FALSE
            /\ logs' = WithNewEntries(logs,
                          Repeat(<< LogEntry("Alarm stopped manually via " \o s.name, now') >>,
                                 runs))
       ELSE /\ sensors'[i].state = newState
            /\ \A j \in 1..Len(sensors) : j # i => sensors'[j] = sensors[j]
            /\ alarmOn' = ring
            /\ logs' = WithNewEntries(logs,
                          Repeat((IF ring
                                  THEN << LogEntry("ALARM TRIGGERED: " \o s.name \o
                                            " detected activity while system armed", now') >>
                                  ELSE << >>) \o
                                 << LogEntry(s.name \o " - " \o newState, now') >>, runs))

(* C3: a triggerSensor call made by the simulation timer is handled exactly *)
(* like a manual one against the armed and alarmOn current at the tick: the *)
(* resulting sensors, alarmOn and logs are those of a manual call.         *)
C3_TickLikeManual ==
    [][ last'.op = "tick" =>
            \E runs \in RunInputs : LikeManualTrigger(last'.id, runs) ]_vars

(* C4: disarm() in any reachable state ends with armed = FALSE and          *)
(* alarmOn = FALSE, puts exactly one entry "System disarmed" in front of    *)
(* the log and leaves every sensor record unchanged.                       *)
C4_Disarm ==
    [][ last'.op = "disarm" =>
            /\ armed' = FALSE
            /\ alarmOn' = FALSE
            /\ sensors' = sensors
            /\ logs' = WithNewEntries(logs, << LogEntry("System disarmed", now') >>)
      ]_vars

\* disarm() was called while the system was armed and the alarm was ringing
C4_Witness ==
    /\ last.op = "disarm" /\ last.cArmed /\ last.cAlarmOn
    /\ ~armed /\ ~alarmOn
    /\ logs[1].message = "System disarmed"

\* the number of entries of a most-recent-first sequence written at time t
RECURSIVE NewCount(_, _)
NewCount(s, t) ==
    IF s = << >> \/ Head(s).time # t THEN 0 ELSE 1 + NewCount(Tail(s), t)

\* new is old with k fresh entries in front, and, beyond the capacity cap,
\* without its last (oldest) entries; the entries kept keep their order
GrewInFront(old, new, cap, t) ==
    LET k == NewCount(new, t)
    IN /\ k >= 1
       /\ Len(new) = (IF Len(old) + k < cap THEN Len(old) + k ELSE cap)
       /\ \A j \in (k + 1)..Len(new) : new[j] = old[j - k]

\* the step handles a command that writes to the log
LoggingStep ==
    \/ last'.op \in {"arm", "disarm", "toggleAlarm", "toggleSimulation", "check",
                     "acknowledge"}
    \/ TriggerStep /\ HasSensor(last'.id)

(* C5: in every reachable state every sensor's history has at most 30       *)
(* events and the log at most 200 entries; every command that writes to the *)
(* log, and every sensor transition, puts its entries in front, also at     *)
(* capacity, where the entries dropped are the oldest (last) ones; the      *)
(* entries kept keep their order.                                           *)
C5_BoundedFifo ==
    /\ [](/\ Len(logs) <= 200
          /\ \A i \in 1..Len(sensors) : Len(sensors[i].history) <= 30)
    /\ [][ /\ (LoggingStep \/ (logs' # logs /\ last'.op \notin {"clearLogs", "reload"}))
                => GrewInFront(logs, logs', 200, now')
           /\ \A i \in 1..Len(sensors) :
                sensors'[i] # sensors[i] /\ last'.op \notin {"acknowledge", "reload"}
                    => GrewInFront(sensors[i].history, sensors'[i].history, 30, now')
         ]_vars

\* the log is full and has lost its oldest entry, and so has the Front
\* Door's history, after a trigger
C5_Witness ==
    /\ last.op \in {"trigger", "tick"}
    /\ Len(logs) = 200 /\ logs[200].time > 1
    /\ Len(sensors[1].history) = 30
    /\ sensors[1].history[30].time > SeasonToggles + 1
    /\ sensors[1].lastEvent = now

C7_Acknowledge ==
    [][ (last'.op = "acknowledge" /\ HasSensor(last'.id)) =>
            LET i == IndexOf(last'.id)
            IN /\ sensors'[i].state = NormalValue(sensors[i].type)
               /\ alarmOn' = FALSE
               /\ armed' = armed
               /\ logs' = WithNewEntries(logs,
                            << LogEntry("Acknowledged " \o sensors[i].name, now') >>)
      ]_vars

(* C8: a triggerSensor(id) call changes no sensor record other than the one *)
(* whose id is id; when id matches no sensor the call leaves sensors,       *)
(* armed, alarmOn (even if TRUE) and the log unchanged.                     *)
C8_TriggerFrame ==
    [][ TriggerStep =>
            /\ Len(sensors') = Len(sensors)
            /\ \A i \in 1..Len(sensors) :
                  sensors[i].id # last'.id => sensors'[i] = sensors[i]
            /\ ~HasSensor(last'.id) =>
                  /\ sensors' = sensors
                  /\ armed' = armed
                  /\ alarmOn' = alarmOn
                  /\ logs' = logs
      ]_vars

\* triggerSensor with an unknown id was called while the alarm was ringing,
\* and the alarm still rings
C8_Witness ==
    /\ last.op = "trigger" /\ ~HasSensor(last.id) /\ last.cAlarmOn
    /\ alarmOn
    /\ logs[1].message = "Alarm sounded"

(* C9: acknowledgeSensor(id) with an id that matches no sensor is a silent  *)
(* no-op: sensors, armed, alarmOn and the log are unchanged.                *)
C9_AckUnknownNoOp ==
    [][ (last'.op = "acknowledge" /\ ~HasSensor(last'.id)) =>
            /\ sensors' = sensors
            /\ armed' = armed
            /\ alarmOn' = alarmOn
            /\ logs' = logs
      ]_vars

(* C10: alarmOn changes from FALSE to TRUE only in a toggleAlarm step or in *)
(* a triggerSensor step whose new sensor state is abnormal while armed is   *)
(* TRUE.                                                                    *)
C10_AlarmOnOnlyBy ==
    [][ (~alarmOn /\ alarmOn') =>
            \/ last'.op = "toggleAlarm"
            \/ /\ TriggerStep
               /\ HasSensor(last'.id)
               /\ armed
               /\ sensors'[IndexOf(last'.id)].state \in AbnormalStates
      ]_vars

(* C11: arm() sets armed = TRUE, puts exactly one entry "System armed" in   *)
(* front of the log and leaves alarmOn and every sensor unchanged, also     *)
(* when some sensor is already in an abnormal state.                        *)
C11_Arm ==
    [][ last'.op = "arm" =>
            /\ armed' = TRUE
            /\ alarmOn' = alarmOn
            /\ sensors' = sensors
            /\ logs' = WithNewEntries(logs, << LogEntry("System armed", now') >>)
      ]_vars

\* arm() was called with a sensor in an abnormal state and the alarm off,
\* and the alarm is still off
C11_Witness ==
    /\ last.op = "arm" /\ ~last.cArmed /\ ~last.cAlarmOn
    /\ armed /\ ~alarmOn
    /\ \E i \in 1..Len(sensors) : sensors[i].state \in AbnormalStates
    /\ logs[1].message = "System armed"

(* C12: a triggerSensor call on an existing sensor made while the alarm is  *)
(* not ringing puts exactly one Event {time, type: nextState, note} in      *)
(* front of that sensor's history, sets its state and lastEvent, and puts   *)
(* exactly one entry "<name> - <nextState>" in the log, followed, when      *)
(* armed and nextState is abnormal, by exactly one newer entry "ALARM       *)
(* TRIGGERED ...": the log grows by two entries in that case, else by one.  *)
C12_OneEntryPerTrigger ==
    [][ (TriggerStep /\ HasSensor(last'.id) /\ ~alarmOn) =>
            LET i == IndexOf(last'.id)
                s == sensors[i]
                nextState == sensors'[i].state
                ring == armed /\ nextState \in AbnormalStates
            IN /\ sensors'[i].lastEvent = now'
               /\ sensors'[i].history =
                    SubSeq(<< [time |-> now', type |-> nextState,
                               note |-> s.name \o " -> " \o nextState] >> \o s.history,
                           1, IF Len(s.history) < 30 THEN Len(s.history) + 1 ELSE 30)
               /\ logs' = WithNewEntries(logs,
                            (IF ring
                             THEN << LogEntry("ALARM TRIGGERED: " \o s.name \o
                                       " detected activity while system armed", now') >>
                             ELSE << >>) \o
                            << LogEntry(s.name \o " - " \o nextState, now') >>)
      ]_vars

\* the other state of the two a sensor of this type moves between
Opposite(type, state) ==
    IF state = NormalValue(type)
    THEN CHOOSE x \in ValidStates(type) : x # state
    ELSE NormalValue(type)

(* C13: a trigger (button or tick) of an existing sensor while the alarm is *)
(* not ringing moves the sensor to the forced state when one is given, and  *)
(* otherwise to the other state of its pair (open<->closed, idle<->motion,  *)
(* ok<->alert, ok<->alarm).                                                 *)
C13_NextStateRule ==
    [][ (TriggerStep /\ HasSensor(last'.id) /\ ~alarmOn) =>
            LET i == IndexOf(last'.id)
                s == sensors[i]
            IN IF last'.forced # NoForce
               THEN sensors'[i].state = last'.forced
               ELSE s.state \in ValidStates(s.type) =>
                        sensors'[i].state = Opposite(s.type, s.state)
      ]_vars

(* C14: toggleAlarm() flips alarmOn whatever armed is, leaves armed and all *)
(* sensors unchanged and puts exactly one entry in front of the log:        *)
(* "Alarm sounded" when alarmOn goes FALSE -> TRUE, "Alarm silenced" when   *)
(* it goes TRUE -> FALSE.                                                   *)
C14_ToggleAlarm ==
    [][ last'.op = "toggleAlarm" =>
            /\ alarmOn' = ~alarmOn
            /\ armed' = armed
            /\ sensors' = sensors
            /\ logs' = WithNewEntries(logs,
                         << LogEntry(IF alarmOn' THEN "Alarm sounded" ELSE "Alarm silenced",
                                     now') >>)
      ]_vars

\* the alarm was sounded by hand and then silenced by hand, the system armed
C14_Witness ==
    /\ last.op = "toggleAlarm" /\ last.cAlarmOn /\ last.cArmed
    /\ armed /\ ~alarmOn
    /\ Len(logs) >= 2
    /\ logs[1].message = "Alarm silenced"
    /\ logs[2].message = "Alarm sounded"

(* C15: after clearLogs() the log consists of exactly one entry, "Cleared   *)
(* logs"; sensors (histories included), armed and alarmOn are unchanged.    *)
C15_ClearLogs ==
    [][ last'.op = "clearLogs" =>
            /\ logs' = << LogEntry("Cleared logs", now') >>
            /\ sensors' = sensors
            /\ armed' = armed
            /\ alarmOn' = alarmOn
      ]_vars

\* the long session's log was cleared; the Front Door keeps its history
C15_Witness ==
    /\ last.op = "clearLogs"
    /\ Len(logs) = 1 /\ logs[1].message = "Cleared logs"
    /\ Len(sensors[1].history) >= SeasonTriggers
    /\ SeasonTriggers > 0

\* the store holds a snapshot: JSON with the keys sensors, armed and logs
WellFormed(st) == st.present /\ st.parsable /\ st.keys = AllKeys

\* the component has just mounted (page opened or reloaded)
JustMounted == last.op \in {"mount", "reload"}

(* C16: when the component mounts on a store that has no value under the    *)
(* key or whose content is not a well-formed snapshot (unparsable text, or  *)
(* JSON lacking sensors / armed / logs), it runs with the defaults: the     *)
(* five initial sensors, armed = FALSE, an empty log, no cell undefined.    *)
C16_LoadFallback ==
    (JustMounted /\ ~WellFormed(saved)) =>
        /\ app = "running"
        /\ undefinedCells = {}
        /\ sensors = initialSensors
        /\ armed = FALSE
        /\ logs = << >>

(* C17: while the store rejects writes, a command or tick handled by the    *)
(* running app leaves the app running (no error escapes, the state in      *)
(* memory stays in use and later commands are accepted).                   *)
C17_WriteFailureSwallowed ==
    [][ (~writable /\ app = "running" /\ steps' = steps + 1) => app' = "running" ]_vars

(* C18: while writes succeed, after every handled event of the running app *)
(* the text under the key is the stringified current { sensors, armed,     *)
(* logs }; and a reload leaves sensors, armed and logs as they were.       *)
C18_StoreMirrorsState ==
    [][ (writable /\ app = "running" /\ app' = "running") =>
            /\ stored' = Stringify(sensors', armed', logs', undefinedCells')
            /\ last'.op = "reload" =>
                   /\ sensors' = sensors
                   /\ armed' = armed
                   /\ logs' = logs
                   /\ undefinedCells' = undefinedCells
      ]_vars

\* the system was armed in this session, the page was reloaded, and the
\* component came back armed with the log entry of the arming
C18_Witness ==
    /\ last.op = "reload" /\ steps = 2
    /\ writable /\ app = "running"
    /\ armed /\ saved.armed
    /\ logs # << >> /\ logs = saved.logs
    /\ logs[1].message = "System armed" /\ logs[1].time = now - 1
    /\ sensors = saved.sensors

(* C19: a reload of the running page leaves alarmOn = FALSE whatever it    *)
(* was, and restores armed and the sensors, abnormal states included; and  *)
(* alarmOn goes from FALSE to TRUE only by the "Sound Alarm" checkbox or   *)
(* by a trigger that moves an existing sensor into an abnormal state.      *)
C19_ReloadSilences ==
    [][ /\ (last'.op = "reload" /\ app = "running" /\ writable) =>
               /\ alarmOn' = FALSE
               /\ armed' = armed
               /\ sensors' = sensors
        /\ (~alarmOn /\ alarmOn') =>
               \/ last'.op = "toggleAlarm"
               \/ /\ TriggerStep
                  /\ HasSensor(last'.id)
                  /\ sensors'[IndexOf(last'.id)].state \in AbnormalStates
                  /\ sensors'[IndexOf(last'.id)].lastEvent = now'
      ]_vars

\* the alarm was ringing for the open Front Door when the page was
\* reloaded: the system is armed, the door is open, the alarm is off
C19_Witness ==
    /\ last.op = "reload" /\ last.cAlarmOn /\ last.cArmed
    /\ app = "running"
    /\ armed /\ ~alarmOn
    /\ sensors[1].state = "open"

====
